---------------------------- MODULE Spec2Model ----------------------------
(***************************************************************************)
(* Schnaps-Shot: border and EXIF overlay for photographs.                  *)
(*                                                                         *)
(* The module models one run of the program (src/src/main.rs, the CLI; and *)
(* src/src/gui.rs, the GUI's process-images callback and its background    *)
(* batch): configuration, the sequential batch over the input files, and   *)
(* the steps of PhotoBorder::process_image for each file.  Strings are     *)
(* sequences of one-character strings, so that to_lowercase, file_stem and *)
(* extension are computed rather than assumed.  The image codec, the EXIF  *)
(* reader, the font parser and the file system are outside src/: what they *)
(* answer for a given file is part of the input (see File).                *)
(*                                                                         *)
(* Spec is a whole run from either front end.  SpecRunner calls the two    *)
(* batch runners directly, on longer lists.  SpecStyle is the style        *)
(* selector on a large set of tokens.                                      *)
(* SpecBorder, SpecCompose, SpecPath and SpecExif are one job each, on     *)
(* many image sizes, pictures, paths and tag lookups.  SpecRerun runs a    *)
(* batch twice.  SpecGui is the window with several background threads.    *)
(***************************************************************************)
EXTENDS Integers, Sequences, FiniteSets, TLC

(***************************************************************************)
(* Bounds of the model.                                                    *)
(***************************************************************************)
\* longest input list of a whole-program run (Spec)
MaxFiles == 2
\* longest input list handed directly to a batch runner (SpecRunner)
MaxBatch == 6
\* longest free-form style token (SpecStyle)
MaxTokenLen == 2
\* the widths and heights of the images whose border size is computed
MaxDim == 121
\* the length of the input paths whose output path is derived
MaxPathLen == 5
\* the number of times the process-images callback fires in a GUI session
MaxThreads == 3

(***************************************************************************)
(* Result<T, E>                                                            *)
(***************************************************************************)
Ok(v) == [tag |-> "Ok", val |-> v]
Err(e) == [tag |-> "Err", err |-> e]
IsOk(r) == r.tag = "Ok"
IsErr(r) == r.tag = "Err"

\* Option<T>
None == [some |-> FALSE]
Some(v) == [some |-> TRUE, val |-> v]

(***************************************************************************)
(* str::to_lowercase, on the ASCII letters (the only characters whose      *)
(* lower-case form is a letter of s, small, m, medium, l, large).          *)
(***************************************************************************)
LowerAlpha == <<"a","b","c","d","e","f","g","h","i","j","k","l","m",
                "n","o","p","q","r","s","t","u","v","w","x","y","z">>
UpperAlpha == <<"A","B","C","D","E","F","G","H","I","J","K","L","M",
                "N","O","P","Q","R","S","T","U","V","W","X","Y","Z">>

to_lowercase_char(c) ==
    IF \E i \in 1..Len(UpperAlpha) : UpperAlpha[i] = c
    THEN LowerAlpha[CHOOSE i \in 1..Len(UpperAlpha) : UpperAlpha[i] = c]
    ELSE c

to_uppercase_char(c) ==
    IF \E i \in 1..Len(LowerAlpha) : LowerAlpha[i] = c
    THEN UpperAlpha[CHOOSE i \in 1..Len(LowerAlpha) : LowerAlpha[i] = c]
    ELSE c

to_lowercase(s) == [i \in 1..Len(s) |-> to_lowercase_char(s[i])]

(***************************************************************************)
(* BorderType::from_str.  The variants keep the code's names; the spec     *)
(* calls Small "Narrow".                                                   *)
(***************************************************************************)
BorderTypes == {"Small", "Medium", "Large"}

from_str_CaseSensitive(s) ==
    IF s \in {<<"s">>, <<"s","m","a","l","l">>} THEN Ok("Small")
    ELSE IF s \in {<<"m">>, <<"m","e","d","i","u","m">>} THEN Ok("Medium")
    ELSE IF s \in {<<"l">>, <<"l","a","r","g","e">>} THEN Ok("Large")
    ELSE Err("Invalid border type")

from_str(s) ==
    LET l == to_lowercase(s) IN
    IF l \in {<<"s">>, <<"s","m","a","l","l">>} THEN Ok("Small")
    ELSE IF l \in {<<"m">>, <<"m","e","d","i","u","m">>} THEN Ok("Medium")
    ELSE IF l \in {<<"l">>, <<"l","a","r","g","e">>} THEN Ok("Large")
    ELSE Err("Invalid border type")

(***************************************************************************)
(* PhotoBorderError: the variant and what it wraps.                        *)
(***************************************************************************)
ImageError(cause) == [kind |-> "ImageError", cause |-> cause]
IoError(cause) == [kind |-> "IoError", cause |-> cause]
ExifError(cause) == [kind |-> "ExifError", cause |-> cause]
FontError(cause) == [kind |-> "FontError", cause |-> cause]

\* impl Display for PhotoBorderError: a prefix per variant, then the cause
Display(e) ==
    CASE e.kind = "ImageError" -> <<"Image processing error: ", e.cause>>
      [] e.kind = "IoError" -> <<"Input/output error: ", e.cause>>
      [] e.kind = "ExifError" -> <<"EXIF reading error: ", e.cause>>
      [] e.kind = "FontError" -> <<"Font error: ", e.cause>>

(***************************************************************************)
(* std::path::Path on Unix, over sequences of characters.                  *)
(***************************************************************************)
Sep == "/"
Dot == "."

\* Components::trim_right: trailing separators and trailing "." components
\* are not components; the root and a leading "." are.
RECURSIVE TrimRight(_)
TrimRight(p) ==
    IF Len(p) >= 2 /\ p[Len(p)] = Sep THEN TrimRight(SubSeq(p, 1, Len(p) - 1))
    ELSE IF Len(p) >= 2 /\ p[Len(p)] = Dot /\ p[Len(p) - 1] = Sep
         THEN TrimRight(SubSeq(p, 1, Len(p) - 1))
    ELSE p

\* the index of the last separator of p, 0 when there is none
LastSep(p) ==
    IF \E i \in 1..Len(p) : p[i] = Sep
    THEN CHOOSE i \in 1..Len(p) : p[i] = Sep /\ \A j \in (i+1)..Len(p) : p[j] # Sep
    ELSE 0

\* Components::next_back: the last component of the path, if any
LastComponent(p) ==
    LET q == TrimRight(p)
        c == SubSeq(q, LastSep(q) + 1, Len(q))
    IN  IF q = <<>> THEN None
        ELSE IF c = <<>> THEN Some([kind |-> "RootDir", text |-> <<Sep>>])
        ELSE IF c = <<Dot>> THEN Some([kind |-> "CurDir", text |-> c])
        ELSE IF c = <<Dot, Dot>> THEN Some([kind |-> "ParentDir", text |-> c])
        ELSE Some([kind |-> "Normal", text |-> c])

\* Path::file_name
file_name(p) ==
    LET c == LastComponent(p) IN
    IF c.some /\ c.val.kind = "Normal" THEN Some(c.val.text) ELSE None

\* Path::parent
parent(p) ==
    LET c == LastComponent(p)
        q == TrimRight(p)
    IN  IF c.some /\ c.val.kind \in {"Normal", "CurDir", "ParentDir"}
        THEN Some(TrimRight(SubSeq(q, 1, LastSep(q))))
        ELSE None

\* the index of the last dot of a file name, 0 when there is none
LastDot(f) ==
    IF \E i \in 1..Len(f) : f[i] = Dot
    THEN CHOOSE i \in 1..Len(f) : f[i] = Dot /\ \A j \in (i+1)..Len(f) : f[j] # Dot
    ELSE 0

\* std::path::rsplit_file_at_dot: (before, after) of the last dot
rsplit_file_at_dot(f) ==
    LET d == LastDot(f) IN
    IF f = <<Dot, Dot>> THEN [before |-> Some(f), after |-> None]
    ELSE IF d = 0 THEN [before |-> None, after |-> Some(f)]
    ELSE IF d = 1 THEN [before |-> Some(f), after |-> None]
    ELSE [before |-> Some(SubSeq(f, 1, d - 1)),
          after |-> Some(SubSeq(f, d + 1, Len(f)))]

\* Path::file_stem: before.or(after)
file_stem(p) ==
    LET f == file_name(p) IN
    IF ~f.some THEN None
    ELSE LET s == rsplit_file_at_dot(f.val) IN
         IF s.before.some THEN s.before ELSE s.after

\* Path::extension: before.and(after)
extension(p) ==
    LET f == file_name(p) IN
    IF ~f.some THEN None
    ELSE LET s == rsplit_file_at_dot(f.val) IN
         IF s.before.some THEN s.after ELSE None

\* Path::join with a relative file name (PathBuf::push)
join(dir, name) ==
    IF name # <<>> /\ name[1] = Sep THEN name
    ELSE IF dir # <<>> /\ dir[Len(dir)] # Sep THEN dir \o <<Sep>> \o name
    ELSE dir \o name

BorderSuffix == <<"_","b","o","r","d","e","r",".">>

generate_output_path_SameName(input_path, output_dir) ==
    LET stem == file_stem(input_path)
        ext == extension(input_path)
    IN  IF ~stem.some THEN Err(IoError("Invalid filename"))
        ELSE IF ~ext.some THEN Err(IoError("No file extension"))
        ELSE LET output_filename == stem.val \o <<Dot>> \o ext.val IN
             IF output_dir.some THEN Ok(join(output_dir.val, output_filename))
             ELSE LET par == parent(input_path) IN
                  Ok(join(IF par.some THEN par.val ELSE <<Dot>>, output_filename))

generate_output_path_Beside(input_path, output_dir) ==
    LET stem == file_stem(input_path)
        ext == extension(input_path)
    IN  IF ~stem.some THEN Err(IoError("Invalid filename"))
        ELSE IF ~ext.some THEN Err(IoError("No file extension"))
        ELSE LET output_filename == stem.val \o BorderSuffix \o ext.val
                 par == parent(input_path)
             IN  Ok(join(IF par.some THEN par.val ELSE <<Dot>>, output_filename))

(***************************************************************************)
(* PhotoBorder::generate_output_path.  The paths of a run come from        *)
(* Strings (clap's arguments, the dialogs' output), so to_str never fails. *)
(***************************************************************************)
generate_output_path(input_path, output_dir) ==
    LET stem == file_stem(input_path)
        ext == extension(input_path)
    IN  IF ~stem.some THEN Err(IoError("Invalid filename"))
        ELSE IF ~ext.some THEN Err(IoError("No file extension"))
        ELSE LET output_filename == stem.val \o BorderSuffix \o ext.val IN
             IF output_dir.some THEN Ok(join(output_dir.val, output_filename))
             ELSE LET par == parent(input_path) IN
                  Ok(join(IF par.some THEN par.val ELSE <<Dot>>, output_filename))


(***************************************************************************)
(* Border geometry and compositing.                                        *)
(***************************************************************************)
Min(a, b) == IF a < b THEN a ELSE b

get_border_size_AllSides(bt, img_width, img_height) ==
    LET min_dimension == Min(img_width, img_height) IN
    CASE bt = "Small" ->
           LET bottom == min_dimension \div 60 IN
           [top |-> bottom, right |-> bottom, bottom |-> bottom, left |-> bottom]
      [] bt = "Medium" ->
           LET border == min_dimension \div 15 IN
           [top |-> border, right |-> border, bottom |-> border, left |-> border]
      [] bt = "Large" ->
           LET border == min_dimension \div 10 IN
           [top |-> border, right |-> border, bottom |-> border, left |-> border]

\* BorderType::get_border_size: (top, right, bottom, left), u32 division
get_border_size(bt, img_width, img_height) ==
    LET min_dimension == Min(img_width, img_height) IN
    CASE bt = "Small" ->
           LET bottom == min_dimension \div 60 IN
           [top |-> 0, right |-> 0, bottom |-> bottom, left |-> 0]
      [] bt = "Medium" ->
           LET border == min_dimension \div 15 IN
           [top |-> border, right |-> border, bottom |-> border, left |-> border]
      [] bt = "Large" ->
           LET border == min_dimension \div 10 IN
           [top |-> border, right |-> border, bottom |-> border, left |-> border]

\* Rgb([255u8, 255u8, 255u8])
White == <<255, 255, 255>>

\* the channel values the pictures of the model are painted with
Shades == <<0, 64, 255>>

\* A decoded image (DynamicImage): its colour type, its dimensions and its
\* pixels.  The pixels of a picture are those of a fixed pattern, so that
\* large pictures stay small values: pixel (x, y) takes its channels from
\* Shades, starting at a position that depends on x, y and the pattern.
Picture(color, width, height, pattern) ==
    [color |-> color, width |-> width, height |-> height, pattern |-> pattern]

Shade(k) == Shades[(k % 3) + 1]

\* GenericImageView::get_pixel on the decoded image
get_pixel(img, x, y) ==
    LET k == x + img.pattern * y IN
    IF img.color = "Rgba8"
    THEN <<Shade(k), Shade(k + 1), Shade(k + 2), Shade(k + y)>>
    ELSE <<Shade(k), Shade(k + 1), Shade(k + 2)>>

dimensions_ZeroBased(img) == [width |-> img.width - 1, height |-> img.height - 1]

\* GenericImageView::dimensions
dimensions(img) == [width |-> img.width, height |-> img.height]

Coords(width, height) == (0..(width - 1)) \X (0..(height - 1))

\* An RgbImage (ImageBuffer<Rgb<u8>>): its dimensions, a pixel for every
\* coordinate, and the text the rasterizer was asked to draw on it, if any.
\* DynamicImage::to_rgb8: an Rgb8 pixel is kept, an Rgba8 pixel loses its
\* alpha channel.
to_rgb8(img) ==
    [width |-> img.width, height |-> img.height,
     pixels |-> [c \in Coords(img.width, img.height) |->
                   SubSeq(get_pixel(img, c[1], c[2]), 1, 3)],
     text |-> None]

\* ImageBuffer::from_pixel
from_pixel(width, height, pixel) ==
    [width |-> width, height |-> height,
     pixels |-> [c \in Coords(width, height) |-> pixel],
     text |-> None]

overlay_AtOrigin(bottom, top, x, y) ==
    [bottom EXCEPT !.pixels =
        [c \in Coords(bottom.width, bottom.height) |->
            IF c[1] < top.width /\ c[2] < top.height
            THEN top.pixels[c] ELSE bottom.pixels[c]]]

\* imageops::overlay: the pixels of top replace those of bottom from (x, y)
\* on, as far as they lie inside bottom (an Rgb pixel blends by replacing)
overlay(bottom, top, x, y) ==
    [bottom EXCEPT !.pixels =
        [c \in Coords(bottom.width, bottom.height) |->
            IF /\ c[1] >= x /\ c[1] < x + top.width
               /\ c[2] >= y /\ c[2] < y + top.height
            THEN top.pixels[<<c[1] - x, c[2] - y>>]
            ELSE bottom.pixels[c]]]


(***************************************************************************)
(* EXIF metadata.  A tag lookup maps each tag to the display value of its   *)
(* field in the primary image, or to None.  Strings are sequences of       *)
(* characters.                                                             *)
(***************************************************************************)
Tags ==
    {"Make", "Model", "LensModel", "FocalLength", "FNumber", "ExposureTime",
     "PhotographicSensitivity", "DateTimeOriginal"}

Quote == "\""

\* str::trim_matches('"'): every leading and every trailing quote goes
RECURSIVE trim_matches(_)
trim_matches(s) ==
    IF s # <<>> /\ s[1] = Quote THEN trim_matches(Tail(s))
    ELSE IF s # <<>> /\ s[Len(s)] = Quote
         THEN trim_matches(SubSeq(s, 1, Len(s) - 1))
    ELSE s

\* ExifData::default()
ExifData_default ==
    [camera |-> None, lens |-> None, focal_length |-> None, aperture |-> None,
     shutter_speed |-> None, iso |-> None, date_taken |-> None]

from_file_WithDate(tags) ==
    [camera |-> IF tags["Make"].some /\ tags["Model"].some
                THEN Some(trim_matches(tags["Model"].val)) ELSE None,
     lens |-> IF tags["LensModel"].some
              THEN Some(trim_matches(tags["LensModel"].val)) ELSE None,
     focal_length |-> IF tags["FocalLength"].some
                      THEN Some(tags["FocalLength"].val \o <<"m", "m">>)
                      ELSE None,
     aperture |-> IF tags["FNumber"].some
                  THEN Some(<<"f", "/">> \o tags["FNumber"].val) ELSE None,
     shutter_speed |-> IF tags["ExposureTime"].some
                       THEN Some(tags["ExposureTime"].val \o <<"s">>) ELSE None,
     iso |-> IF tags["PhotographicSensitivity"].some
             THEN Some(<<"I", "S", "O", " ">>
                       \o tags["PhotographicSensitivity"].val)
             ELSE None,
     date_taken |-> IF tags["DateTimeOriginal"].some
                    THEN Some(trim_matches(tags["DateTimeOriginal"].val))
                    ELSE None]

from_file_ModelOnly(tags) ==
    [camera |-> IF tags["Model"].some
                THEN Some(trim_matches(tags["Model"].val)) ELSE None,
     lens |-> IF tags["LensModel"].some
              THEN Some(trim_matches(tags["LensModel"].val)) ELSE None,
     focal_length |-> IF tags["FocalLength"].some
                      THEN Some(tags["FocalLength"].val \o <<"m", "m">>)
                      ELSE None,
     aperture |-> IF tags["FNumber"].some
                  THEN Some(<<"f", "/">> \o tags["FNumber"].val) ELSE None,
     shutter_speed |-> IF tags["ExposureTime"].some
                       THEN Some(tags["ExposureTime"].val \o <<"s">>) ELSE None,
     iso |-> IF tags["PhotographicSensitivity"].some
             THEN Some(<<"I", "S", "O", " ">>
                       \o tags["PhotographicSensitivity"].val)
             ELSE None,
     date_taken |-> None]

\* ExifData::from_file, once the container is read: the fields taken from
\* the tag lookup.  The camera is the Model's display value, set only when
\* Make is there too; date_taken is left at its default.
from_file(tags) ==
    [camera |-> IF tags["Make"].some /\ tags["Model"].some
                THEN Some(trim_matches(tags["Model"].val)) ELSE None,
     lens |-> IF tags["LensModel"].some
              THEN Some(trim_matches(tags["LensModel"].val)) ELSE None,
     focal_length |-> IF tags["FocalLength"].some
                      THEN Some(tags["FocalLength"].val \o <<"m", "m">>)
                      ELSE None,
     aperture |-> IF tags["FNumber"].some
                  THEN Some(<<"f", "/">> \o tags["FNumber"].val) ELSE None,
     shutter_speed |-> IF tags["ExposureTime"].some
                       THEN Some(tags["ExposureTime"].val \o <<"s">>) ELSE None,
     iso |-> IF tags["PhotographicSensitivity"].some
             THEN Some(<<"I", "S", "O", " ">>
                       \o tags["PhotographicSensitivity"].val)
             ELSE None,
     date_taken |-> ExifData_default.date_taken]

\* [String]::join
RECURSIVE Join(_, _)
Join(strs, sep) ==
    IF strs = <<>> THEN <<>>
    ELSE IF Len(strs) = 1 THEN strs[1]
    ELSE strs[1] \o sep \o Join(Tail(strs), sep)

\* if let Some(v) = field { vec.push(v.clone()) }
PushIfSome(vec, field) == IF field.some THEN Append(vec, field.val) ELSE vec

\* " \u{2022} ": the bullet, U+2022, between two spaces
Bullet == <<" ", "U+2022", " ">>

format_for_display_ApertureLast(exif_data) ==
    LET lines1 == PushIfSome(<<>>, exif_data.camera)
        lines2 == PushIfSome(lines1, exif_data.lens)
        settings ==
            PushIfSome(PushIfSome(PushIfSome(PushIfSome(<<>>,
                exif_data.focal_length), exif_data.shutter_speed),
                exif_data.iso), exif_data.aperture)
        lines3 == IF settings # <<>> THEN Append(lines2, Join(settings, Bullet))
                  ELSE lines2
    IN  PushIfSome(lines3, exif_data.date_taken)

\* ExifData::format_for_display
format_for_display(exif_data) ==
    LET lines1 == PushIfSome(<<>>, exif_data.camera)
        lines2 == PushIfSome(lines1, exif_data.lens)
        settings ==
            PushIfSome(PushIfSome(PushIfSome(PushIfSome(<<>>,
                exif_data.focal_length), exif_data.aperture),
                exif_data.shutter_speed), exif_data.iso)
        lines3 == IF settings # <<>> THEN Append(lines2, Join(settings, Bullet))
                  ELSE lines2
    IN  PushIfSome(lines3, exif_data.date_taken)


(***************************************************************************)
(* Input files.  A file is its path and what the outside world answers for *)
(* it: whether image::open decodes it, whether the EXIF reader finds a     *)
(* container in it, and whether its output file can be written; the image  *)
(* it decodes to and the tags its container holds.                         *)
(***************************************************************************)
DefaultImage == Picture("Rgb8", 2, 1, 1)

TagValue(t) ==
    CASE t = "Make" -> <<Quote, "K", Quote>>
      [] t = "Model" -> <<Quote, "X", Quote>>
      [] t = "LensModel" -> <<Quote, "L", Quote>>
      [] t = "FocalLength" -> <<"5">>
      [] t = "FNumber" -> <<"2">>
      [] t = "ExposureTime" -> <<"1", "/", "9">>
      [] t = "PhotographicSensitivity" -> <<"4">>
      [] t = "DateTimeOriginal" -> <<"D">>

\* the lookup that holds exactly the tags of `present`
TagsOf(present) == [t \in Tags |-> IF t \in present THEN Some(TagValue(t)) ELSE None]

DefaultTags == TagsOf({"Make", "Model", "FNumber", "DateTimeOriginal"})

File(path, decodable, exif, writable) ==
    [path |-> path, decodable |-> decodable, exif |-> exif, writable |-> writable,
     image |-> DefaultImage, tags |-> DefaultTags]

\* the same file, decoding to `img`; holding the tags `tags`; at `path`
WithImage(f, img) == [f EXCEPT !.image = img]
WithTags(f, tags) == [f EXCEPT !.tags = tags]
WithPath(f, path) == [f EXCEPT !.path = path]

GoodFile == File(<<"a",".","j">>, TRUE, TRUE, TRUE)
UndecodableFile == File(<<"b",".","j">>, FALSE, FALSE, TRUE)
NoExtensionFile == File(<<"d","/","c">>, TRUE, TRUE, TRUE)
NoExifFile == File(<<"e",".","p">>, TRUE, FALSE, TRUE)
UnwritableFile == File(<<"r","/","f",".","j">>, TRUE, TRUE, FALSE)
NoStemFile == File(<<"d","/",".",".">>, TRUE, FALSE, TRUE)

\* the files of a whole-program run
ProgramFiles ==
    {GoodFile, UndecodableFile, NoExtensionFile, NoExifFile, UnwritableFile,
     NoStemFile}

\* the files of a long batch handed directly to a runner
BatchFiles == {GoodFile, UndecodableFile, NoExtensionFile}

SeqsUpTo(S, n) == UNION {[1..k -> S] : k \in 0..n}

\* style tokens of a whole-program run: a valid one and an invalid one
ProgramTokens == {<<"M">>, <<"x","l">>}

OutDir == <<"o">>
FontPath == <<"t">>

(***************************************************************************)
(* State.                                                                  *)
(***************************************************************************)
VARIABLES
    entry,          \* the front end of the run: "cli" or "gui"
    args,           \* files, border_type_str, exif, output_dir, font_path
    dirState,       \* the output directory's path: "dir" (a directory),
                    \* "absent" (creatable), "locked" (not creatable), "file"
    fontFile,       \* the custom font file: "garbage" or "unreadable"
    border_type,    \* Option<BorderType>: the parsed style
    pc,             \* the position of the run
    photo_border,   \* Option<PhotoBorder>
    idx,            \* the batch loop's position in files (1-based)
    job,            \* the locals of the running process_image call
    success_count,
    error_count,
    error_details,  \* gui.rs: Vec<String> of "path: error"
    result,         \* Option<Result<..>> of the run
    window,         \* gui.rs: the window's processing flag and status text
    log,            \* the calls made so far, in order: job, step, outcome
    outputs,        \* the saves of this run, in order: path, bordered image
    runs,           \* what the earlier runs of the same batch produced
    threads         \* gui.rs: the background threads spawned so far

vars == <<entry, args, dirState, fontFile, border_type, pc, photo_border, idx, job,
          success_count, error_count, error_details, result, window, log,
          outputs, runs, threads>>

\* the locals of process_image before its first statement
NoJob ==
    [state |-> "Start", img |-> "none", border |-> None, new_width |-> 0,
     new_height |-> 0, bordered_img |-> "none",
     exif_data |-> None, lines |-> None, warnings |-> {}, output_path |-> None,
     result |-> None]

IdleWindow == [processing |-> FALSE, status_text |-> <<>>]

Event(i, step, ok) == [job |-> i, step |-> step, ok |-> ok]

InitCommon ==
    /\ border_type = None
    /\ photo_border = None
    /\ idx = 0
    /\ job = NoJob
    /\ success_count = 0
    /\ error_count = 0
    /\ error_details = <<>>
    /\ result = None
    /\ window = IdleWindow
    /\ log = <<>>
    /\ outputs = <<>>
    /\ runs = <<>>
    /\ threads = <<>>

ArgsOver(files, tokens) ==
    [files : files, border_type_str : tokens, exif : BOOLEAN,
     output_dir : {None, Some(OutDir)}, font_path : {None, Some(FontPath)}]

InitEnv ==
    /\ dirState \in (IF args.output_dir.some
                     THEN {"dir", "absent", "locked", "file"}
                     ELSE {"dir"})
    /\ fontFile \in (IF args.font_path.some THEN {"garbage", "unreadable"}
                     ELSE {"garbage"})

\* A whole-program run: the CLI after clap has parsed its arguments (files is
\* required, num_args(1..)), or the GUI when the process-images callback fires.
Init ==
    /\ entry \in {"cli", "gui"}
    /\ args \in ArgsOver(SeqsUpTo(ProgramFiles, MaxFiles), ProgramTokens)
    /\ entry = "cli" => args.files # <<>>
    /\ InitEnv
    /\ pc = IF entry = "cli" THEN "cli_from_str" ELSE "gui_callback"
    /\ InitCommon


(***************************************************************************)
(* Configuration.                                                          *)
(***************************************************************************)
\* PhotoBorder::new: a custom font is read from its file, else the embedded
\* DejaVu Sans is used; font_data is always Some.
PhotoBorder_new(bt, show_exif, font_path, font_file) ==
    IF font_path.some /\ font_file = "unreadable"
    THEN Err(IoError("read font"))
    ELSE Ok([border_type |-> bt, show_exif |-> show_exif,
             font_data |-> Some(IF font_path.some THEN font_file
                                ELSE "DejaVuSans")])

\* the causes of the failures raised before the batch starts
ConfigCauses ==
    {"Invalid border type", "create_dir_all", "exists but is not a directory",
     "read font"}

ExitWith(r) ==
    /\ result' = Some(r)
    /\ pc' = "exit"

launch_cli_after_DirLast(step) ==
    CASE step = "cli_from_str" -> "cli_new"
      [] step = "cli_new" -> "cli_loop"
      [] step = "cli_summary" -> "cli_output_dir"
      [] step = "cli_output_dir" -> "cli_return"

\* launch_cli: the order of its statements after the arguments are read
launch_cli_after(step) ==
    CASE step = "cli_from_str" -> "cli_output_dir"
      [] step = "cli_output_dir" -> "cli_new"
      [] step = "cli_new" -> "cli_loop"
      [] step = "cli_summary" -> "cli_return"

\* launch_cli: BorderType::from_str(..).map_err(FontError)?
CliParseBorderType ==
    /\ pc = "cli_from_str"
    /\ LET r == from_str(args.border_type_str) IN
       IF IsErr(r)
       THEN /\ ExitWith(Err(FontError(r.err)))
            /\ UNCHANGED border_type
       ELSE /\ border_type' = Some(r.val)
            /\ pc' = launch_cli_after("cli_from_str")
            /\ UNCHANGED result
    /\ UNCHANGED <<outputs, runs, threads, entry, args, dirState, fontFile, photo_border, idx, job,
                   success_count, error_count, error_details, window, log>>

\* launch_cli: validate and create the output directory
CliCreateOutputDir ==
    /\ pc = "cli_output_dir"
    /\ IF ~args.output_dir.some \/ dirState = "dir"
       THEN /\ pc' = launch_cli_after("cli_output_dir")
            /\ UNCHANGED <<dirState, result>>
       ELSE IF dirState = "absent"
       THEN /\ dirState' = "dir"
            /\ pc' = launch_cli_after("cli_output_dir")
            /\ UNCHANGED result
       ELSE /\ ExitWith(Err(IoError(IF dirState = "locked" THEN "create_dir_all"
                                    ELSE "exists but is not a directory")))
            /\ UNCHANGED dirState
    /\ UNCHANGED <<outputs, runs, threads, entry, args, fontFile, border_type, photo_border, idx, job,
                   success_count, error_count, error_details, window, log>>

\* the show_exif that launch_cli hands to PhotoBorder::new: the literal true
CliShowExif == TRUE

\* launch_cli: PhotoBorder::new(border_type, true, font_path)?
CliNew ==
    /\ pc = "cli_new"
    /\ LET r == PhotoBorder_new(border_type.val, CliShowExif, args.font_path,
                                fontFile) IN
       IF IsErr(r)
       THEN /\ ExitWith(Err(r.err))
            /\ UNCHANGED photo_border
       ELSE /\ photo_border' = Some(r.val)
            /\ pc' = launch_cli_after("cli_new")
            /\ UNCHANGED result
    /\ UNCHANGED <<outputs, runs, threads, entry, args, dirState, fontFile, border_type, idx, job,
                   success_count, error_count, error_details, window, log>>

\* on_process_images: nothing selected, or read the settings, raise the
\* processing flag and start the background batch
GuiCallback ==
    /\ pc = "gui_callback"
    /\ IF args.files = <<>>
       THEN /\ window' = [window EXCEPT
                            !.status_text = <<"Please select files first">>]
            /\ pc' = "exit"
       ELSE /\ window' = [processing |-> TRUE,
                          status_text |-> <<"Processing images...">>]
            /\ pc' = "bg_from_str"
    /\ UNCHANGED <<outputs, runs, threads, entry, args, dirState, fontFile, border_type, photo_border,
                   idx, job, success_count, error_count, error_details,
                   result, log>>

ReturnFromBackground(r) ==
    /\ result' = Some(r)
    /\ pc' = "gui_update"

\* process_images_background: BorderType::from_str(..).map_err(FontError)?
BgParseBorderType ==
    /\ pc = "bg_from_str"
    /\ LET r == from_str(args.border_type_str) IN
       IF IsErr(r)
       THEN /\ ReturnFromBackground(Err(FontError(r.err)))
            /\ UNCHANGED border_type
       ELSE /\ border_type' = Some(r.val)
            /\ pc' = "bg_new"
            /\ UNCHANGED result
    /\ UNCHANGED <<outputs, runs, threads, entry, args, dirState, fontFile, photo_border, idx, job,
                   success_count, error_count, error_details, window, log>>

\* process_images_background: PhotoBorder::new(border_type, show_exif, font_path)?
BgNew ==
    /\ pc = "bg_new"
    /\ LET r == PhotoBorder_new(border_type.val, args.exif, args.font_path,
                                fontFile) IN
       IF IsErr(r)
       THEN /\ ReturnFromBackground(Err(r.err))
            /\ UNCHANGED photo_border
       ELSE /\ photo_border' = Some(r.val)
            /\ pc' = "bg_loop"
            /\ UNCHANGED result
    /\ UNCHANGED <<outputs, runs, threads, entry, args, dirState, fontFile, border_type, idx, job,
                   success_count, error_count, error_details, window, log>>


(***************************************************************************)
(* PhotoBorder::process_image, one statement at a time.                    *)
(***************************************************************************)
\* the file the batch loop is at
CurrentFile == args.files[idx]

\* where process_image returns to
ReturnTo == IF entry = "cli" THEN "cli_match" ELSE "bg_match"

process_image_next_RetryDecode(step, ok, show_exif) ==
    CASE step = "decode" -> IF ok THEN "border_size" ELSE "decode"
      [] step = "border_size" -> "compose"
      [] step = "compose" -> IF show_exif THEN "read_exif" ELSE "derive_path"
      [] step = "read_exif" -> IF ok THEN "draw_text" ELSE "derive_path"
      [] step = "draw_text" -> "derive_path"
      [] step = "derive_path" -> IF ok THEN "encode" ELSE "Failed"
      [] step = "encode" -> IF ok THEN "Saved" ELSE "Failed"

process_image_next_ExifFatal(step, ok, show_exif) ==
    CASE step = "decode" -> IF ok THEN "border_size" ELSE "Failed"
      [] step = "border_size" -> "compose"
      [] step = "compose" -> IF show_exif THEN "read_exif" ELSE "derive_path"
      [] step = "read_exif" -> IF ok THEN "draw_text" ELSE "Failed"
      [] step = "draw_text" -> IF ok THEN "derive_path" ELSE "Failed"
      [] step = "derive_path" -> IF ok THEN "encode" ELSE "Failed"
      [] step = "encode" -> IF ok THEN "Saved" ELSE "Failed"

process_image_next_PathFallback(step, ok, show_exif) ==
    CASE step = "decode" -> IF ok THEN "border_size" ELSE "Failed"
      [] step = "border_size" -> "compose"
      [] step = "compose" -> IF show_exif THEN "read_exif" ELSE "derive_path"
      [] step = "read_exif" -> IF ok THEN "draw_text" ELSE "derive_path"
      [] step = "draw_text" -> "derive_path"
      [] step = "derive_path" -> "encode"
      [] step = "encode" -> IF ok THEN "Saved" ELSE "Failed"

\* the statement that follows `step`, given whether the step succeeded: the
\* `?` after image::open, generate_output_path and save ends the call, the
\* EXIF reader's and the text drawing's errors are printed as warnings
process_image_next(step, ok, show_exif) ==
    CASE step = "decode" -> IF ok THEN "border_size" ELSE "Failed"
      [] step = "border_size" -> "compose"
      [] step = "compose" -> IF show_exif THEN "read_exif" ELSE "derive_path"
      [] step = "read_exif" -> IF ok THEN "draw_text" ELSE "derive_path"
      [] step = "draw_text" -> "derive_path"
      [] step = "derive_path" -> IF ok THEN "encode" ELSE "Failed"
      [] step = "encode" -> IF ok THEN "Saved" ELSE "Failed"

\* One statement of process_image has run: `j` holds the locals after it,
\* `r` its Result.  The call goes on, or returns r's error or Ok(()).
Advance(step, r, j) ==
    LET nxt == process_image_next(step, IsOk(r), photo_border.val.show_exif)
        ev == Event(idx, step, IsOk(r))
        warned == IF IsErr(r) /\ nxt # "Failed"
                  THEN [j EXCEPT !.warnings = @ \cup {r.err.kind}]
                  ELSE j
    IN  IF nxt = "Failed"
        THEN /\ job' = [j EXCEPT !.state = "Failed",
                                 !.result = Some(Err(r.err))]
             /\ pc' = ReturnTo
             /\ log' = log \o <<ev, Event(idx, "Failed", FALSE)>>
        ELSE IF nxt = "Saved"
        THEN /\ job' = [warned EXCEPT !.state = "Saved", !.result = Some(Ok("()"))]
             /\ pc' = ReturnTo
             /\ log' = log \o <<ev, Event(idx, "Saved", TRUE)>>
        ELSE /\ job' = warned
             /\ pc' = nxt
             /\ log' = Append(log, ev)

JobFrame ==
    UNCHANGED <<runs, threads, entry, args, dirState, fontFile, border_type, photo_border,
                idx, success_count, error_count, error_details, result, window>>

\* let img = image::open(input_path)?
Decode ==
    /\ pc = "decode"
    /\ IF CurrentFile.decodable
       THEN Advance("decode", Ok("img"),
                    [job EXCEPT !.state = "Loaded", !.img = CurrentFile.image])
       ELSE Advance("decode", Err(ImageError("decode")), job)
    /\ JobFrame
    /\ UNCHANGED outputs

\* img.dimensions(), get_border_size, new_width and new_height.  The sums
\* are u32 sums; an image whose width or height comes near 2^32 is not one
\* image::open returns, and the sums of the model stay far below.
BorderSize ==
    /\ pc = "border_size"
    /\ LET dim == dimensions(job.img)
           b == get_border_size(photo_border.val.border_type, dim.width,
                                dim.height)
       IN  Advance("border_size", Ok("()"),
                   [job EXCEPT !.border = Some(b),
                               !.new_width = dim.width + b.left + b.right,
                               !.new_height = dim.height + b.top + b.bottom])
    /\ JobFrame
    /\ UNCHANGED outputs

\* ImageBuffer::from_pixel(white), imageops::overlay(img.to_rgb8(), left, top)
Compose ==
    /\ pc = "compose"
    /\ Advance("compose", Ok("()"),
               [job EXCEPT
                  !.state = "Composed",
                  !.bordered_img =
                      overlay(from_pixel(job.new_width, job.new_height, White),
                              to_rgb8(job.img), job.border.val.left,
                              job.border.val.top)])
    /\ JobFrame
    /\ UNCHANGED outputs

\* if self.show_exif { match ExifData::from_file(input_path) .. }
ReadExif ==
    /\ pc = "read_exif"
    /\ IF CurrentFile.exif
       THEN Advance("read_exif", Ok("exif_data"),
                    [job EXCEPT !.state = "MetadataApplied",
                                !.exif_data = Some(from_file(CurrentFile.tags))])
       ELSE Advance("read_exif", Err(ExifError("read_from_container")),
                    [job EXCEPT !.state = "MetadataApplied"])
    /\ JobFrame
    /\ UNCHANGED outputs

\* PhotoBorder::draw_exif_text: no font is a no-op, an unparseable font a
\* FontError, else the text is drawn on the bordered image
\* The image after draw_text_mut (the rasterizer is outside src/): what it
\* was asked to draw and where.
draw_text_mut(img, color, x, y, scale, text) ==
    [img EXCEPT !.text = Some([text |-> text, color |-> color, x |-> x, y |-> y,
                               scale |-> scale])]

\* Rgb([64u8, 64u8, 64u8])
DarkGray == <<64, 64, 64>>

\* lines.join(" | ")
Bar == <<" ", "|", " ">>

\* PhotoBorder::draw_exif_text: the image after the call, and the lines it
\* formatted, if it came to format them
draw_exif_text(font_data, img, exif_data, x_offset, y_offset) ==
    IF ~font_data.some THEN Ok([img |-> img, lines |-> None])
    ELSE IF font_data.val = "garbage" THEN Err(FontError("Invalid font data"))
    ELSE LET min_dimension == Min(img.width, img.height)
             lines == format_for_display(exif_data)
         IN  Ok([img |-> draw_text_mut(img, DarkGray, x_offset + 20,
                                       y_offset + 5, min_dimension \div 80,
                                       Join(lines, Bar)),
                 lines |-> Some(lines)])

\* if let Err(e) = self.draw_exif_text(&mut bordered_img, &exif_data, left,
\* new_height - bottom) { eprintln!(Warning) }
DrawText ==
    /\ pc = "draw_text"
    /\ LET r == draw_exif_text(photo_border.val.font_data, job.bordered_img,
                               job.exif_data.val, job.border.val.left,
                               job.new_height - job.border.val.bottom) IN
       Advance("draw_text", r,
               IF IsOk(r)
               THEN [job EXCEPT !.bordered_img = r.val.img, !.lines = r.val.lines]
               ELSE job)
    /\ JobFrame
    /\ UNCHANGED outputs

\* let output_path = self.generate_output_path(input_path, output_dir)?
DerivePath ==
    /\ pc = "derive_path"
    /\ LET r == generate_output_path(CurrentFile.path, args.output_dir) IN
       Advance("derive_path", r,
               IF IsOk(r) THEN [job EXCEPT !.output_path = Some(r.val)] ELSE job)
    /\ JobFrame
    /\ UNCHANGED outputs

\* whether the file system takes the output file: the file's own answer, and
\* the output directory, when one is given, has to exist
CanWrite(f) == f.writable /\ (args.output_dir.some => dirState = "dir")

\* the saves of the run after `img` is saved at `path`
Saved(files, path, img) == Append(files, [path |-> path, img |-> img])

\* bordered_img.save(&output_path)?
Encode ==
    /\ pc = "encode"
    /\ IF CanWrite(CurrentFile)
       THEN /\ Advance("encode", Ok("()"), job)
            /\ outputs' = Saved(outputs, job.output_path.val, job.bordered_img)
       ELSE /\ Advance("encode", Err(ImageError("encode")), job)
            /\ UNCHANGED outputs
    /\ JobFrame


(***************************************************************************)
(* The batch runners.                                                      *)
(***************************************************************************)
RunnerFrame ==
    UNCHANGED <<outputs, runs, threads, entry, args, dirState, fontFile, border_type, photo_border,
                window>>

\* for .. in input_paths.iter(): the next file, or the end of the loop
ForNext(done) ==
    IF idx < Len(args.files)
    THEN /\ idx' = idx + 1
         /\ job' = NoJob
         /\ pc' = "decode"
    ELSE /\ pc' = done
         /\ UNCHANGED <<idx, job>>

\* process_multiple_images: the head of the for loop
CliLoop ==
    /\ pc = "cli_loop"
    /\ ForNext("cli_summary")
    /\ UNCHANGED <<success_count, error_count, error_details, result, log>>
    /\ RunnerFrame

CliMatch_BreakOnError ==
    /\ pc = "cli_match"
    /\ IF IsOk(job.result.val)
       THEN /\ success_count' = success_count + 1
            /\ pc' = "cli_loop"
            /\ UNCHANGED error_count
       ELSE /\ error_count' = error_count + 1
            /\ pc' = "cli_summary"
            /\ UNCHANGED success_count
    /\ UNCHANGED <<idx, job, error_details, result, log>>
    /\ RunnerFrame

\* process_multiple_images: match self.process_image(..) { Ok / Err }
CliMatch ==
    /\ pc = "cli_match"
    /\ IF IsOk(job.result.val)
       THEN /\ success_count' = success_count + 1
            /\ UNCHANGED error_count
       ELSE /\ error_count' = error_count + 1
            /\ UNCHANGED success_count
    /\ pc' = "cli_loop"
    /\ UNCHANGED <<idx, job, error_details, result, log>>
    /\ RunnerFrame

\* process_multiple_images: print the summary, Ok(())
CliSummary ==
    /\ pc = "cli_summary"
    /\ result' = Some(Ok(<<>>))
    /\ pc' = launch_cli_after("cli_summary")
    /\ UNCHANGED <<idx, job, success_count, error_count, error_details, log>>
    /\ RunnerFrame

\* launch_cli: photo_border.process_multiple_images(..)?; Ok(())
CliReturn ==
    /\ pc = "cli_return"
    /\ pc' = "exit"
    /\ UNCHANGED <<idx, job, success_count, error_count, error_details,
                   result, log>>
    /\ RunnerFrame

\* process_images_background: the head of the for loop
BgLoop ==
    /\ pc = "bg_loop"
    /\ ForNext("bg_summary")
    /\ UNCHANGED <<success_count, error_count, error_details, result, log>>
    /\ RunnerFrame

\* format!("{}: {}", file_path, e)
ErrorDetail(file_path, e) ==
    [path |-> file_path, sep |-> ": ", error |-> Display(e)]

PushDetail_Front(details, d) == <<d>> \o details

\* error_details.push(..)
PushDetail(details, d) == Append(details, d)

\* process_images_background: match photo_border.process_image(..) { Ok / Err }
BgMatch ==
    /\ pc = "bg_match"
    /\ IF IsOk(job.result.val)
       THEN /\ success_count' = success_count + 1
            /\ UNCHANGED <<error_count, error_details>>
       ELSE /\ error_count' = error_count + 1
            /\ error_details' =
                   PushDetail(error_details,
                              ErrorDetail(CurrentFile.path, job.result.val.err))
            /\ UNCHANGED success_count
    /\ pc' = "bg_loop"
    /\ UNCHANGED <<idx, job, result, log>>
    /\ RunnerFrame

\* the number of error details the status message shows
DetailLimit == 5

Take(s, n) == SubSeq(s, 1, IF Len(s) < n THEN Len(s) ELSE n)

StatusMessage_OffByOne(successes, errors, details) ==
    <<[line |-> "Processing complete!"],
      [line |-> "Successfully processed: {} image(s)", n |-> successes]>>
    \o (IF errors > 0
        THEN <<[line |-> "Errors: {} image(s)", n |-> errors]>>
             \o (IF details # <<>>
                 THEN <<[line |-> "Error details:"]>>
                      \o [i \in 1..Len(Take(details, DetailLimit)) |->
                            [line |-> "- {}", detail |-> details[i]]]
                      \o (IF Len(details) >= DetailLimit
                          THEN <<[line |-> "... and {} more errors",
                                  n |-> Len(details) - DetailLimit]>>
                          ELSE <<>>)
                 ELSE <<>>)
        ELSE <<>>)

\* process_images_background: the status message, line by line
StatusMessage(successes, errors, details) ==
    <<[line |-> "Processing complete!"],
      [line |-> "Successfully processed: {} image(s)", n |-> successes]>>
    \o (IF errors > 0
        THEN <<[line |-> "Errors: {} image(s)", n |-> errors]>>
             \o (IF details # <<>>
                 THEN <<[line |-> "Error details:"]>>
                      \o [i \in 1..Len(Take(details, DetailLimit)) |->
                            [line |-> "- {}", detail |-> details[i]]]
                      \o (IF Len(details) > DetailLimit
                          THEN <<[line |-> "... and {} more errors",
                                  n |-> Len(details) - DetailLimit]>>
                          ELSE <<>>)
                 ELSE <<>>)
        ELSE <<>>)

BgSummary_FailOnErrors ==
    /\ pc = "bg_summary"
    /\ ReturnFromBackground(
           IF error_count > 0 THEN Err(ImageError("batch failed"))
           ELSE Ok(StatusMessage(success_count, error_count, error_details)))
    /\ UNCHANGED <<idx, job, success_count, error_count, error_details, log>>
    /\ RunnerFrame

\* process_images_background: Ok(status)
BgSummary ==
    /\ pc = "bg_summary"
    /\ ReturnFromBackground(
           Ok(StatusMessage(success_count, error_count, error_details)))
    /\ UNCHANGED <<idx, job, success_count, error_count, error_details, log>>
    /\ RunnerFrame

\* the background thread's closure, after process_images_background: lower
\* the processing flag and show the status or the error
GuiUpdate ==
    /\ pc = "gui_update"
    /\ window' = [processing |-> FALSE,
                  status_text |-> IF IsOk(result.val) THEN result.val.val
                                  ELSE <<"Processing error: {}",
                                         Display(result.val.err)>>]
    /\ pc' = "exit"
    /\ UNCHANGED <<outputs, runs, threads, entry, args, dirState, fontFile, border_type, photo_border,
                   idx, job, success_count, error_count, error_details,
                   result, log>>

(***************************************************************************)
(* Specifications.                                                         *)
(***************************************************************************)
ProcessImage ==
    \/ Decode
    \/ BorderSize
    \/ Compose
    \/ ReadExif
    \/ DrawText
    \/ DerivePath
    \/ Encode

CliRunner ==
    \/ CliLoop
    \/ CliMatch
    \/ CliSummary

BgRunner ==
    \/ BgParseBorderType
    \/ BgNew
    \/ BgLoop
    \/ BgMatch
    \/ BgSummary

Next ==
    \/ CliParseBorderType
    \/ CliCreateOutputDir
    \/ CliNew
    \/ CliRunner
    \/ CliReturn
    \/ GuiCallback
    \/ BgRunner
    \/ GuiUpdate
    \/ ProcessImage

\* a run of the program, from the command line or from the window
Spec == Init /\ [][Next]_vars


\* A batch runner called on its own: process_multiple_images on a PhotoBorder
\* built with either show_exif, or process_images_background, with any list of
\* files, the empty one too.
InitRunner ==
    /\ entry \in {"cli", "gui"}
    /\ args \in ArgsOver(SeqsUpTo(BatchFiles, MaxBatch), ProgramTokens)
    /\ args.output_dir = None
    /\ args.font_path = None
    /\ entry = "cli" => args.border_type_str = <<"M">>
    /\ InitEnv
    /\ border_type = IF entry = "cli" THEN Some("Medium") ELSE None
    /\ photo_border =
           IF entry = "cli"
           THEN Some(PhotoBorder_new("Medium", args.exif, None, fontFile).val)
           ELSE None
    /\ pc = IF entry = "cli" THEN "cli_loop" ELSE "bg_from_str"
    /\ idx = 0
    /\ job = NoJob
    /\ success_count = 0
    /\ error_count = 0
    /\ error_details = <<>>
    /\ result = None
    /\ window = IdleWindow
    /\ log = <<>>
    /\ outputs = <<>>
    /\ runs = <<>>
    /\ threads = <<>>

NextRunner ==
    \/ CliRunner
    \/ BgRunner
    \/ ProcessImage

SpecRunner == InitRunner /\ [][NextRunner]_vars


(***************************************************************************)
(* The style selector on its own: the configuration step of either front   *)
(* end, for every token of StyleTokens.                                    *)
(***************************************************************************)
TokenAlphabet == {"s", "S", "m", "M", "l", "L", "x", " "}

small == <<"s","m","a","l","l">>
medium == <<"m","e","d","i","u","m">>
large == <<"l","a","r","g","e">>

\* every way of writing w in upper and lower case
CaseVariants(w) ==
    {[i \in 1..Len(w) |-> IF i \in U THEN to_uppercase_char(w[i]) ELSE w[i]] :
        U \in SUBSET (1..Len(w))}

\* tokens one character away from a word: a letter dropped, or one appended
NearMisses(w) ==
    {SubSeq(w, 1, Len(w) - 1), SubSeq(w, 2, Len(w)), w \o <<"s">>, w \o <<" ">>}

StyleTokens ==
    SeqsUpTo(TokenAlphabet, MaxTokenLen)
    \cup UNION {CaseVariants(w) : w \in {small, medium, large}}
    \cup UNION {CaseVariants(w) : w \in UNION {NearMisses(v) : v \in {small, large}}}

InitStyle ==
    /\ entry \in {"cli", "gui"}
    /\ args \in ArgsOver({<<GoodFile>>}, StyleTokens)
    /\ args.exif = FALSE
    /\ args.output_dir = None
    /\ args.font_path = None
    /\ InitEnv
    /\ pc = IF entry = "cli" THEN "cli_from_str" ELSE "gui_callback"
    /\ InitCommon

NextStyle ==
    \/ CliParseBorderType
    \/ GuiCallback
    \/ BgParseBorderType

SpecStyle == InitStyle /\ [][NextStyle]_vars


(***************************************************************************)
(* One job on one file, entered at process_image with a PhotoBorder of the *)
(* given style and show_exif.                                              *)
(***************************************************************************)
StyleToken(bt) ==
    CASE bt = "Small" -> <<"s">> [] bt = "Medium" -> <<"m">> [] bt = "Large" -> <<"l">>

InitJob(files, styles, show_exif, output_dirs) ==
    /\ entry = "cli"
    /\ \E f \in files, bt \in styles, e \in show_exif, d \in output_dirs :
          /\ args = [files |-> <<f>>, border_type_str |-> StyleToken(bt),
                     exif |-> e, output_dir |-> d, font_path |-> None]
          /\ border_type = Some(bt)
          /\ photo_border = Some(PhotoBorder_new(bt, e, None, "garbage").val)
    /\ dirState = "dir"
    /\ fontFile = "garbage"
    /\ pc = "decode"
    /\ idx = 1
    /\ job = NoJob
    /\ success_count = 0
    /\ error_count = 0
    /\ error_details = <<>>
    /\ result = None
    /\ window = IdleWindow
    /\ log = <<>>
    /\ outputs = <<>>
    /\ runs = <<>>
    /\ threads = <<>>

\* The border size of every image up to MaxDim x MaxDim, in every style.
BorderImages ==
    {WithImage(GoodFile, Picture("Rgb8", w, h, 1)) : w \in 1..MaxDim, h \in 1..MaxDim}

InitBorder == InitJob(BorderImages, BorderTypes, {FALSE}, {None})

NextBorder ==
    \/ Decode
    \/ BorderSize

SpecBorder == InitBorder /\ [][NextBorder]_vars


\* The canvas of small and of large pictures, with and without alpha: sides
\* below 10 (no border in any style), from 10 and from 15 on (Large, Medium)
\* and of 60 (Small).
ComposeSides == {1, 2, 10, 15, 31, 60}

ComposeImages ==
    {WithImage(GoodFile, Picture(color, w, h, pattern)) :
        color \in {"Rgb8", "Rgba8"}, w \in ComposeSides, h \in ComposeSides,
        pattern \in {1, 2}}

InitCompose == InitJob(ComposeImages, BorderTypes, {FALSE}, {None})

NextCompose ==
    \/ Decode
    \/ BorderSize
    \/ Compose

SpecCompose == InitCompose /\ [][NextCompose]_vars


\* One job for every input path up to MaxPathLen characters, without and
\* with an output directory.
PathAlphabet == {"a", "j", Dot, Sep}

InputPaths == SeqsUpTo(PathAlphabet, MaxPathLen)

OutputDirs ==
    {None, Some(<<>>), Some(<<"o">>), Some(<<Sep, "o">>), Some(<<"o", Sep>>),
     Some(<<Sep>>), Some(<<Dot>>), Some(<<"a">>), Some(<<"a", Sep, Dot, Sep>>)}

InitPath ==
    InitJob({WithPath(GoodFile, p) : p \in InputPaths}, {"Medium"}, {FALSE},
            OutputDirs)

NextPath ==
    \/ Decode
    \/ BorderSize
    \/ Compose
    \/ DerivePath
    \/ Encode

SpecPath == InitPath /\ [][NextPath]_vars


\* One job with show_exif on a file for every tag lookup: every set of tags
\* present, the Model quoted (an ASCII field), bare or empty, the LensModel
\* quoted or empty.
ModelValues == {<<Quote, "X", Quote>>, <<"X">>, <<Quote, Quote>>}

LensValues == {<<Quote, "L", Quote>>, <<Quote, Quote>>}

TagLookups ==
    {[TagsOf(present) EXCEPT
        !["Model"] = IF @.some THEN Some(mv) ELSE @,
        !["LensModel"] = IF @.some THEN Some(lv) ELSE @] :
        present \in SUBSET Tags, mv \in ModelValues, lv \in LensValues}

InitExif ==
    InitJob({WithTags(GoodFile, t) : t \in TagLookups}, {"Medium"}, {TRUE}, {None})

NextExif ==
    \/ Decode
    \/ BorderSize
    \/ Compose
    \/ ReadExif
    \/ DrawText

SpecExif == InitExif /\ [][NextExif]_vars


(***************************************************************************)
(* The same batch run twice: the program is started again with the same    *)
(* arguments (or the process-images callback fires again with the same     *)
(* selection and settings) once the first run is over.  What the first run *)
(* produced is kept in `runs`; the output directory it created stays.      *)
(***************************************************************************)
RerunFiles == {GoodFile, UndecodableFile, NoExifFile, UnwritableFile}

InitRerun ==
    /\ entry \in {"cli", "gui"}
    /\ args \in ArgsOver(SeqsUpTo(RerunFiles, MaxFiles), ProgramTokens)
    /\ args.files # <<>>
    /\ InitEnv
    /\ pc = IF entry = "cli" THEN "cli_from_str" ELSE "gui_callback"
    /\ InitCommon

\* what a run leaves behind
Produced ==
    [outputs |-> outputs, log |-> log, result |-> result,
     success_count |-> success_count, error_count |-> error_count,
     error_details |-> error_details, status_text |-> window.status_text]

Rerun_KeepCounters ==
    /\ pc = "exit"
    /\ runs = <<>>
    /\ runs' = Append(runs, Produced)
    /\ pc' = IF entry = "cli" THEN "cli_from_str" ELSE "gui_callback"
    /\ border_type' = None
    /\ photo_border' = None
    /\ idx' = 0
    /\ job' = NoJob
    /\ error_details' = <<>>
    /\ result' = None
    /\ log' = <<>>
    /\ outputs' = <<>>
    /\ UNCHANGED <<entry, args, dirState, fontFile, window, threads,
                   success_count, error_count>>

\* The second run starts: main is entered again, or on_process_images is
\* called again.  Every local of launch_cli, of process_images_background
\* and of process_multiple_images is initialised anew; the window and the
\* file system are as the first run left them.
Rerun ==
    /\ pc = "exit"
    /\ runs = <<>>
    /\ runs' = Append(runs, Produced)
    /\ pc' = IF entry = "cli" THEN "cli_from_str" ELSE "gui_callback"
    /\ border_type' = None
    /\ photo_border' = None
    /\ idx' = 0
    /\ job' = NoJob
    /\ success_count' = 0
    /\ error_count' = 0
    /\ error_details' = <<>>
    /\ result' = None
    /\ log' = <<>>
    /\ outputs' = <<>>
    /\ UNCHANGED <<entry, args, dirState, fontFile, window, threads>>

NextRerun ==
    \/ Next
    \/ Rerun

SpecRerun == InitRerun /\ [][NextRerun]_vars


(***************************************************************************)
(* The window and its background threads.  The event loop may call         *)
(* on_process_images at any time, also while an earlier batch runs: the    *)
(* callback does not look at the processing flag.  A batch is one step     *)
(* here, process_images_background returning Ok(status) or Err(e).         *)
(***************************************************************************)
InitGui ==
    /\ entry = "gui"
    /\ args \in ArgsOver({<<>>, <<GoodFile>>, <<GoodFile, UndecodableFile>>},
                          ProgramTokens)
    /\ args.exif = FALSE
    /\ args.output_dir = None
    /\ args.font_path = None
    /\ InitEnv
    /\ pc = "event_loop"
    /\ InitCommon

GuiFrame ==
    UNCHANGED <<entry, args, dirState, fontFile, border_type, pc, photo_border,
                idx, job, success_count, error_count, error_details, result,
                log, outputs, runs>>

\* on_process_images: nothing selected, or raise the processing flag and
\* spawn the thread that runs the batch
OnProcessImages ==
    /\ pc = "event_loop"
    /\ Len(threads) < MaxThreads
    /\ IF args.files = <<>>
       THEN /\ window' = [window EXCEPT
                            !.status_text = <<"Please select files first">>]
            /\ threads' = Append(threads, [state |-> "not spawned",
                                           result |-> None])
       ELSE /\ window' = [processing |-> TRUE,
                          status_text |-> <<"Processing images...">>]
            /\ threads' = Append(threads, [state |-> "running",
                                           result |-> None])
    /\ GuiFrame

\* the result of process_images_background for the selection and the
\* settings of the window: an invalid style is an error, else the status
\* of a batch whose first n jobs succeeded and whose other jobs failed
BackgroundResult ==
    LET r == from_str(args.border_type_str)
        files == args.files
    IN  IF IsErr(r) THEN {Err(FontError(r.err))}
        ELSE {Ok(StatusMessage(n, Len(files) - n,
                               [k \in 1..(Len(files) - n) |->
                                  ErrorDetail(files[n + k].path,
                                              ImageError("decode"))])) :
                n \in 0..Len(files)}

\* thread t: process_images_background returns
BackgroundReturns(t) ==
    /\ threads[t].state = "running"
    /\ \E r \in BackgroundResult :
          threads' = [threads EXCEPT ![t] = [state |-> "returned",
                                            result |-> Some(r)]]
    /\ UNCHANGED window
    /\ GuiFrame

\* thread t, after the batch: if the window can still be upgraded, lower the
\* processing flag and show the status or the error
ThreadUpdate(t, upgraded) ==
    /\ threads[t].state = "returned"
    /\ threads' = [threads EXCEPT ![t].state = "finished"]
    /\ IF upgraded
       THEN window' =
              [processing |-> FALSE,
               status_text |-> IF IsOk(threads[t].result.val)
                               THEN threads[t].result.val.val
                               ELSE <<"Processing error: {}",
                                      Display(threads[t].result.val.err)>>]
       ELSE UNCHANGED window
    /\ GuiFrame

\* some background thread takes its next step
BackgroundBatch == \E t \in DOMAIN threads : BackgroundReturns(t)

BackgroundUpdate ==
    \E t \in DOMAIN threads, upgraded \in BOOLEAN : ThreadUpdate(t, upgraded)

NextGui ==
    \/ OnProcessImages
    \/ BackgroundBatch
    \/ BackgroundUpdate

SpecGui == InitGui /\ [][NextGui]_vars


(***************************************************************************)
(* What the properties below read off a state.                             *)
(***************************************************************************)
NumFiles == Len(args.files)

\* how often `step` was run for input i
CallCount(i, step) ==
    Cardinality({k \in DOMAIN log : log[k].job = i /\ log[k].step = step})

\* the steps run for input i, in order
StepsOf(i) ==
    LET es == SelectSeq(log, LAMBDA e : e.job = i)
    IN  [k \in 1..Len(es) |-> es[k].step]

Terminal == {"Saved", "Failed"}

\* the input's path has no file stem or no extension
LacksStemOrExtension(f) == ~file_stem(f.path).some \/ ~extension(f.path).some

\* an input that cannot be processed: undecodable, no output path, or its
\* output file cannot be written
Fails(f) == ~f.decodable \/ LacksStemOrExtension(f) \/ ~CanWrite(f)

FailingInputs == {i \in 1..NumFiles : Fails(args.files[i])}

\* the error a failing input ends with: the first of its failures
ExpectedError(f) ==
    IF ~f.decodable THEN ImageError("decode")
    ELSE IF ~file_stem(f.path).some THEN IoError("Invalid filename")
    ELSE IF ~extension(f.path).some THEN IoError("No file extension")
    ELSE ImageError("encode")

\* the failure messages of the first n inputs, in input order
RECURSIVE ExpectedDetails(_)
ExpectedDetails(n) ==
    IF n = 0 THEN <<>>
    ELSE ExpectedDetails(n - 1)
         \o (IF Fails(args.files[n])
             THEN <<[path |-> args.files[n].path, sep |-> ": ",
                     error |-> Display(ExpectedError(args.files[n]))]>>
             ELSE <<>>)

\* the batch runner has been entered and has returned
BatchReturned ==
    photo_border.some /\ pc \in {"cli_return", "gui_update", "exit"}

\* process_image is running or has just returned to the runner's match
InJob ==
    pc \in {"decode", "border_size", "compose", "read_exif", "draw_text", "derive_path",
            "encode", "cli_match", "bg_match"}

\* the number of inputs whose outcome the runner has recorded
Recorded == IF InJob THEN idx - 1 ELSE idx

(***************************************************************************)
(* C1.  A batch run attempts every input exactly once, whatever failed     *)
(* before it, and ends with success_count + error_count = N, error_count   *)
(* the number of failing inputs and success_count the others.              *)
(***************************************************************************)
C1_EveryInputCounted ==
    /\ \A k \in DOMAIN log : log[k].job \in 1..NumFiles
    /\ \A i \in 1..NumFiles : CallCount(i, "decode") <= 1
    /\ BatchReturned =>
          /\ \A i \in 1..NumFiles :
                /\ CallCount(i, "decode") = 1
                /\ CallCount(i, "Saved") + CallCount(i, "Failed") = 1
                /\ CallCount(i, "Failed") = 1 <=> i \in FailingInputs
          /\ success_count + error_count = NumFiles
          /\ error_count = Cardinality(FailingInputs)
          /\ success_count = NumFiles - Cardinality(FailingInputs)

\* the spec's example: inputs 2 and 5 undecodable, the others fine
C1_Witness ==
    /\ BatchReturned
    /\ NumFiles >= 5
    /\ FailingInputs = {2, 5}
    /\ ~args.files[2].decodable /\ ~args.files[5].decodable
    /\ error_count = 2
    /\ success_count = NumFiles - 2

(***************************************************************************)
(* C2.  The batch is strictly sequential in input order: the job of input  *)
(* i ends (Saved or Failed) before the job of input i+1 starts, and the    *)
(* recorded failure messages are those of the failing inputs, in input     *)
(* order, each the input's path followed by its cause.                     *)
(***************************************************************************)
C2_SequentialInOrder ==
    /\ log # <<>> => log[1].job = 1 /\ log[1].step = "decode"
    /\ \A k \in 1..(Len(log) - 1) :
          IF log[k].step \in Terminal
          THEN log[k+1].job = log[k].job + 1 /\ log[k+1].step = "decode"
          ELSE log[k+1].job = log[k].job /\ log[k+1].step # "decode"
    /\ entry = "gui" => error_details = ExpectedDetails(Recorded)

\* a success, then two failures of different causes, all recorded
C2_Witness ==
    /\ entry = "gui"
    /\ pc = "gui_update"
    /\ Len(error_details) = 2
    /\ error_details[1].error # error_details[2].error
    /\ error_details[1].path # error_details[2].path
    /\ ~Fails(args.files[1])
    /\ NumFiles >= 4

(***************************************************************************)
(* C3.  With F failures the status message has min(F, 5) detail lines, the *)
(* first min(F, 5) failures in input order, and the note "... and N more   *)
(* errors" with N = F - 5 exactly when F > 5; with F = 0 it has no failure *)
(* section.                                                                *)
(***************************************************************************)
C3_SummaryDetails ==
    (entry = "gui" /\ pc = "gui_update" /\ IsOk(result.val)) =>
        LET status == result.val.val
            F == Cardinality(FailingInputs)
            shown == SelectSeq(status, LAMBDA l : l.line = "- {}")
            notes == SelectSeq(status, LAMBDA l : l.line = "... and {} more errors")
            failures == ExpectedDetails(NumFiles)
        IN  /\ Len(shown) = (IF F < 5 THEN F ELSE 5)
            /\ \A i \in 1..Len(shown) : shown[i].detail = failures[i]
            /\ Len(notes) = (IF F > 5 THEN 1 ELSE 0)
            /\ F > 5 => notes[1].n = F - 5
            /\ F > 0 => status[3] = [line |-> "Errors: {} image(s)", n |-> F]
            /\ F = 0 => Len(status) = 2
            /\ status[2] = [line |-> "Successfully processed: {} image(s)",
                            n |-> NumFiles - F]

\* six failures: five detail lines and "... and 1 more errors"
C3_Witness ==
    /\ entry = "gui"
    /\ pc = "gui_update"
    /\ IsOk(result.val)
    /\ Cardinality(FailingInputs) = 6
    /\ Len(result.val.val) = 10

(***************************************************************************)
(* C4.  Once the PhotoBorder is built the batch runner returns Ok whatever *)
(* the outcomes of the files, and an empty list is zero work: Ok with 0    *)
(* successes and 0 failures.                                               *)
(***************************************************************************)
C4_RunnerReturnsOk ==
    /\ (photo_border.some /\ result.some) => IsOk(result.val)
    /\ BatchReturned => result.some
    /\ (BatchReturned /\ args.files = <<>>) =>
          /\ IsOk(result.val)
          /\ success_count = 0 /\ error_count = 0
          /\ log = <<>>
          /\ entry = "gui" =>
                result.val.val =
                    <<[line |-> "Processing complete!"],
                      [line |-> "Successfully processed: {} image(s)", n |-> 0]>>

\* process_images_background has returned from an empty list
C4_Witness ==
    /\ entry = "gui"
    /\ args.files = <<>>
    /\ pc = "gui_update"
    /\ IsOk(result.val)
    /\ success_count = 0 /\ error_count = 0


(***************************************************************************)
(* C5.  Metadata failures are not fatal to a job: with show_exif on, an    *)
(* input that decodes, has an output path and can be written is Saved also *)
(* when the EXIF container is unreadable or the font unparseable; the      *)
(* image is then saved without text, the failure is a warning, and it is   *)
(* not counted as an error.                                                *)
(***************************************************************************)
C5_MetadataNeverFatal ==
    /\ (pc \in {"cli_match", "bg_match"} /\ photo_border.val.show_exif
            /\ ~Fails(CurrentFile)) =>
          /\ job.state = "Saved"
          /\ IsOk(job.result.val)
          /\ CallCount(idx, "read_exif") = 1
          /\ IF ~CurrentFile.exif
             THEN job.warnings = {"ExifError"} /\ job.bordered_img.text = None
             ELSE IF photo_border.val.font_data.val = "garbage"
             THEN job.warnings = {"FontError"} /\ job.bordered_img.text = None
             ELSE job.warnings = {} /\ job.bordered_img.text.some
    /\ BatchReturned => error_count = Cardinality(FailingInputs)

\* two inputs saved: one without EXIF container, one with an unparseable font
C5_Witness ==
    /\ pc = "exit"
    /\ photo_border.some /\ photo_border.val.show_exif
    /\ photo_border.val.font_data.val = "garbage"
    /\ NumFiles = 2
    /\ ~args.files[1].exif /\ args.files[2].exif
    /\ log[4] = Event(1, "read_exif", FALSE)
    /\ \E k \in DOMAIN log : log[k] = Event(2, "draw_text", FALSE)
    /\ success_count = 2 /\ error_count = 0

(***************************************************************************)
(* C6.  Metadata is read and text drawn only in the runs whose user        *)
(* enabled metadata display (the CLI's exif flag, the GUI's show-exif).    *)
(***************************************************************************)
C6_MetadataOnlyIfEnabled ==
    ~args.exif => \A k \in DOMAIN log : log[k].step \notin {"read_exif", "draw_text"}

(***************************************************************************)
(* C7.  A job runs decode, compose, optionally the metadata step, output   *)
(* path, encode, and ends Saved or Failed; it never retries: decode and    *)
(* encode run at most once, a decode failure ends the job Failed with an   *)
(* ImageError before anything else runs, and nothing runs after Saved or   *)
(* Failed.                                                                 *)
(***************************************************************************)
IsPrefix(s, t) == Len(s) <= Len(t) /\ SubSeq(t, 1, Len(s)) = s

\* the complete runs of a job
AllowedRuns ==
    {<<"decode", "Failed">>}
    \cup {<<"decode", "border_size", "compose">> \o m \o t :
            m \in {<<>>, <<"read_exif">>, <<"read_exif", "draw_text">>},
            t \in {<<"derive_path", "Failed">>,
                   <<"derive_path", "encode", "Failed">>,
                   <<"derive_path", "encode", "Saved">>}}

C7_JobStateMachine ==
    /\ \A i \in 1..NumFiles :
          /\ \E t \in AllowedRuns : IsPrefix(StepsOf(i), t)
          /\ CallCount(i, "decode") <= 1
          /\ CallCount(i, "encode") <= 1
          /\ (~args.files[i].decodable /\ StepsOf(i) # <<>>) =>
                StepsOf(i) = <<"decode", "Failed">>
          /\ (i < idx \/ (i = idx /\ ~InJob)) => StepsOf(i) \in AllowedRuns
    /\ pc = "decode" => job = NoJob
    /\ pc \in {"border_size", "compose"} => job.state = "Loaded"
    /\ pc = "read_exif" => job.state = "Composed"
    /\ pc = "draw_text" => job.state = "MetadataApplied"
    /\ pc \in {"derive_path", "encode"} => job.state \in {"Composed", "MetadataApplied"}
    /\ pc \in {"cli_match", "bg_match"} =>
          /\ job.state \in Terminal
          /\ job.state = "Saved" <=> IsOk(job.result.val)
          /\ ~CurrentFile.decodable =>
                /\ job.result.val = Err(ImageError("decode"))
                /\ job.img = "none" /\ job.bordered_img = "none"
                /\ job.output_path = None

\* a job failed at decode, the next one went through every step
C7_Witness ==
    /\ pc = "exit"
    /\ NumFiles = 2
    /\ StepsOf(1) = <<"decode", "Failed">>
    /\ StepsOf(2) = <<"decode", "border_size", "compose", "read_exif", "draw_text",
                      "derive_path", "encode", "Saved">>

(***************************************************************************)
(* C8.  An input path without file stem or without extension: deriving the *)
(* output path fails with an IoError, the job ends Failed, nothing is      *)
(* encoded for it, and the inputs after it are still processed.            *)
(***************************************************************************)
C8_PathFailureIsLocal ==
    /\ LacksStemOrExtension(NoExtensionFile) /\ LacksStemOrExtension(NoStemFile)
    /\ ~LacksStemOrExtension(GoodFile) /\ ~LacksStemOrExtension(UnwritableFile)
    /\ \A i \in 1..NumFiles :
          LacksStemOrExtension(args.files[i]) =>
             /\ CallCount(i, "encode") = 0
             /\ CallCount(i, "Saved") = 0
             /\ \A k \in DOMAIN log :
                   (log[k].job = i /\ log[k].step = "derive_path") =>
                      /\ ~log[k].ok
                      /\ k < Len(log)
                      /\ log[k+1] = Event(i, "Failed", FALSE)
    /\ (pc \in {"cli_match", "bg_match"} /\ LacksStemOrExtension(CurrentFile)
            /\ CurrentFile.decodable) =>
          /\ job.state = "Failed"
          /\ job.result.val.tag = "Err"
          /\ job.result.val.err.kind = "IoError"
          /\ job.output_path = None
    /\ BatchReturned =>
          \A i \in 1..NumFiles :
             CallCount(i, "Saved") + CallCount(i, "Failed") = 1

\* the first input has no extension and fails at the output path, the second
\* is saved
C8_Witness ==
    /\ pc = "exit"
    /\ NumFiles = 2
    /\ args.files[1] = NoExtensionFile
    /\ \E k \in DOMAIN log : log[k] = Event(1, "derive_path", FALSE)
    /\ CallCount(1, "Failed") = 1
    /\ CallCount(2, "Saved") = 1
    /\ error_count = 1 /\ success_count = 1

(***************************************************************************)
(* C9.  A configuration failure (invalid style token, output directory     *)
(* that cannot be created or is no directory, unreadable font file) ends   *)
(* the run before any file is touched.                                     *)
(***************************************************************************)
C9_ConfigFailureBeforeWork ==
    /\ (result.some /\ IsErr(result.val)) =>
          /\ result.val.err.cause \in ConfigCauses
          /\ log = <<>>
          /\ idx = 0
          /\ success_count = 0 /\ error_count = 0
          /\ pc \in {"exit", "gui_update"}
    /\ (pc = "exit" /\ args.files # <<>> /\ args.border_type_str = <<"x","l">>) =>
          result = Some(Err(FontError("Invalid border type")))
    /\ (pc = "exit" /\ entry = "cli" /\ args.border_type_str = <<"M">>
            /\ args.output_dir.some /\ dirState \in {"locked", "file"}) =>
          /\ IsErr(result.val)
          /\ result.val.err.kind = "IoError"
          /\ log = <<>>

\* the CLI could not create its output directory
C9_Witness ==
    /\ pc = "exit"
    /\ entry = "cli"
    /\ NumFiles = 2
    /\ dirState = "locked"
    /\ result = Some(Err(IoError("create_dir_all")))
    /\ log = <<>>

(***************************************************************************)
(* C10.  The style selector accepts exactly s, small, m, medium, l, large  *)
(* in any letter case, as Small, Medium, Large; any other token is a       *)
(* FontError.                                                              *)
(***************************************************************************)
SmallTokens == CaseVariants(<<"s">>) \cup CaseVariants(small)
MediumTokens == CaseVariants(<<"m">>) \cup CaseVariants(medium)
LargeTokens == CaseVariants(<<"l">>) \cup CaseVariants(large)

C10_StyleSelector ==
    LET t == args.border_type_str
        parsed == pc \notin {"cli_from_str", "gui_callback", "bg_from_str"}
    IN  /\ t \in SmallTokens => from_str(t) = Ok("Small")
        /\ t \in MediumTokens => from_str(t) = Ok("Medium")
        /\ t \in LargeTokens => from_str(t) = Ok("Large")
        /\ t \notin SmallTokens \cup MediumTokens \cup LargeTokens =>
              from_str(t) = Err("Invalid border type")
        /\ parsed =>
              IF t \in SmallTokens \cup MediumTokens \cup LargeTokens
              THEN /\ border_type.some
                   /\ border_type.val \in BorderTypes
                   /\ result = None
              ELSE /\ border_type = None
                   /\ result = Some(Err(FontError("Invalid border type")))

\* a mixed-case token has been accepted
C10_Witness ==
    /\ args.border_type_str = <<"M","e","D","i","u","M">>
    /\ border_type = Some("Medium")
    /\ result = None

(***************************************************************************)
(* C11.  The border size of an image of positive width and height, with    *)
(* m the smaller of the two: Small (the spec's Narrow) is 0 at the top, the *)
(* right and the left and m / 60 at the bottom, Medium is m / 15 on every  *)
(* side, Large m / 10 on every side, the divisions truncating; no inset is *)
(* negative, and for m < 60 Small is 0 on every side, without error.       *)
(***************************************************************************)
\* q is n / d truncated: the largest q with q * d <= n
IsQuotient(q, n, d) == q >= 0 /\ q * d <= n /\ n < (q + 1) * d

C11_BorderSize ==
    job.border.some =>
        LET b == job.border.val
            m == IF job.img.width <= job.img.height THEN job.img.width
                 ELSE job.img.height
            bt == photo_border.val.border_type
        IN  /\ job.img.width > 0 /\ job.img.height > 0
            /\ \A side \in {"top", "right", "bottom", "left"} :
                   b[side] \in Nat
            /\ bt = "Small" =>
                   /\ b.top = 0 /\ b.right = 0 /\ b.left = 0
                   /\ IsQuotient(b.bottom, m, 60)
                   /\ m < 60 => b.bottom = 0
            /\ bt = "Medium" =>
                   /\ IsQuotient(b.top, m, 15)
                   /\ b.right = b.top /\ b.bottom = b.top /\ b.left = b.top
            /\ bt = "Large" =>
                   /\ IsQuotient(b.top, m, 10)
                   /\ b.right = b.top /\ b.bottom = b.top /\ b.left = b.top
            \* without error: the job goes on to build the canvas
            /\ pc = "compose" /\ job.state = "Loaded"

\* a Small border of 2 pixels at the bottom only, on an image 120 wide
C11_Witness ==
    /\ job.border.some
    /\ photo_border.val.border_type = "Small"
    /\ job.img.width = 120 /\ job.img.height = 121
    /\ job.border.val = [top |-> 0, right |-> 0, bottom |-> 2, left |-> 0]

(***************************************************************************)
(* C17.  In every style and for every image of positive width and height,  *)
(* the insets are smaller than the canvas built from them: top + bottom <  *)
(* new_height and left + right < new_width, where new_width = width + left *)
(* + right and new_height = height + top + bottom.                         *)
(***************************************************************************)
C17_InsetsInsideCanvas ==
    job.border.some =>
        LET b == job.border.val IN
        /\ b.top + b.bottom < job.new_height
        /\ b.left + b.right < job.new_width
        /\ job.new_width - (b.left + b.right) = job.img.width
        /\ job.new_height - (b.top + b.bottom) = job.img.height

\* a Large border of 1 pixel around an image 10 pixels wide: a canvas 12 wide
C17_Witness ==
    /\ job.border.some
    /\ photo_border.val.border_type = "Large"
    /\ job.img.width = 10 /\ job.img.height = 1 + (MaxDim \div 2)
    /\ job.border.val.left = 1 /\ job.new_width = 12

(***************************************************************************)
(* C12.  The composed canvas is source width + left + right wide and       *)
(* source height + top + bottom high; every source pixel (x, y) is at      *)
(* (x + left, y + top) with its red, green and blue unchanged (an alpha    *)
(* channel is dropped); every pixel outside that rectangle is white        *)
(* (255, 255, 255); the source image is not modified.                      *)
(***************************************************************************)
\* the running job has built its canvas
HasCanvas == InJob /\ CallCount(idx, "compose") = 1

\* red, green and blue of a source pixel
RgbOf(pixel) == <<pixel[1], pixel[2], pixel[3]>>

C12_Compose ==
    HasCanvas =>
        LET src == CurrentFile.image
            b == job.border.val
            out == job.bordered_img
        IN  /\ out.width = src.width + b.left + b.right
            /\ out.height = src.height + b.top + b.bottom
            /\ DOMAIN out.pixels = (0..(out.width - 1)) \X (0..(out.height - 1))
            /\ \A x \in 0..(src.width - 1), y \in 0..(src.height - 1) :
                   out.pixels[<<x + b.left, y + b.top>>] = RgbOf(get_pixel(src, x, y))
            /\ \A c \in DOMAIN out.pixels :
                   (\/ c[1] < b.left \/ c[1] >= b.left + src.width
                    \/ c[2] < b.top \/ c[2] >= b.top + src.height)
                   => out.pixels[c] = <<255, 255, 255>>
            /\ job.img = src

\* a Large border of 3 pixels around a 31 x 60 picture with alpha: its first
\* pixel, not white, is at (3, 3), and the corners of the canvas are white
C12_Witness ==
    /\ HasCanvas
    /\ photo_border.val.border_type = "Large"
    /\ CurrentFile.image = Picture("Rgba8", 31, 60, 2)
    /\ job.border.val.left = 3 /\ job.border.val.top = 3
    /\ job.bordered_img.width = 37 /\ job.bordered_img.height = 66
    /\ job.bordered_img.pixels[<<3, 3>>] = <<0, 64, 255>>
    /\ job.bordered_img.pixels[<<0, 0>>] = <<255, 255, 255>>
    /\ job.bordered_img.pixels[<<36, 65>>] = <<255, 255, 255>>

(***************************************************************************)
(* C13.  For an input path with a stem and an extension, the output path   *)
(* is derived; its file name is <stem>_border.<extension>, and its         *)
(* directory is the output directory when one is given, else the           *)
(* directory of the input file.                                            *)
(***************************************************************************)
\* the running job is past generate_output_path
Derived == InJob /\ CallCount(idx, "derive_path") = 1

\* two spellings of one directory: trailing separators and "." set aside
SameDir(a, b) == TrimRight(a) = TrimRight(b)

C13_OutputPath ==
    LET p == CurrentFile.path
        stem == file_stem(p)
        ext == extension(p)
    IN  (Derived /\ stem.some /\ ext.some) =>
            /\ job.output_path.some
            /\ LET out == job.output_path.val IN
               /\ file_name(out) =
                      Some(stem.val \o <<"_", "b", "o", "r", "d", "e", "r", ".">>
                           \o ext.val)
               /\ parent(out).some
               /\ IF args.output_dir.some
                  THEN SameDir(parent(out).val, args.output_dir.val)
                  ELSE SameDir(parent(out).val, parent(p).val)

\* a.j with the output directory /o is saved as /o/a_border.j
C13_Witness ==
    /\ CurrentFile.path = <<"a", ".", "j">>
    /\ args.output_dir = Some(<<"/", "o">>)
    /\ job.state = "Saved"
    /\ job.output_path =
          Some(<<"/", "o", "/", "a", "_", "b", "o", "r", "d", "e", "r", ".", "j">>)
    /\ Len(outputs) = 1 /\ outputs[1].path = job.output_path.val

(***************************************************************************)
(* C14.  The lines of format_for_display are, in this order, the camera,   *)
(* the lens, the technical-settings line and the date taken, one line for  *)
(* each item that is present and none for an absent one: as many lines as  *)
(* items present, no line is blank, and no line at all when every field is *)
(* absent.                                                                 *)
(***************************************************************************)
\* the running job has formatted the lines of its record
Formatted == InJob /\ job.lines.some

TechnicalFields == <<"focal_length", "aperture", "shutter_speed", "iso">>

HasTechnical(r) == \E k \in 1..4 : r[TechnicalFields[k]].some

\* the four items of a record, in display order: present or not
Items(r) == <<r.camera.some, r.lens.some, HasTechnical(r), r.date_taken.some>>

\* the line of item k among the lines: the number of items present up to k
LineOf(r, k) == Cardinality({j \in 1..k : Items(r)[j]})

\* as many lines as items present, each item's line in its place
LinesFollowItems ==
    Formatted =>
        LET r == job.exif_data.val
            lines == job.lines.val
        IN  /\ Len(lines) = Cardinality({k \in 1..4 : Items(r)[k]})
            /\ r.camera.some => lines[LineOf(r, 1)] = r.camera.val
            /\ r.lens.some => lines[LineOf(r, 2)] = r.lens.val
            /\ r.date_taken.some => lines[LineOf(r, 4)] = r.date_taken.val
            /\ (\A k \in 1..4 : ~Items(r)[k]) => lines = <<>>

C14_LinesOfPresentItems ==
    /\ LinesFollowItems
    /\ Formatted => \A k \in 1..Len(job.lines.val) : job.lines.val[k] # <<>>

(***************************************************************************)
(* C15.  The technical-settings line is the focal length, the aperture,    *)
(* the shutter speed and the ISO that are present, in this order, joined   *)
(* with " U+2022 "; there is no such line when none is present.  A record  *)
(* with only aperture and ISO gives exactly one line, "f/<value> U+2022    *)
(* ISO <value>".                                                           *)
(***************************************************************************)
\* two optional pieces of a line, the separator between them if both are there
Joined(a, b) ==
    IF ~a.some THEN b
    ELSE IF ~b.some THEN a
    ELSE Some(a.val \o <<" ", "U+2022", " ">> \o b.val)

TechnicalLine(r) ==
    Joined(Joined(r.focal_length, r.aperture), Joined(r.shutter_speed, r.iso))

OnlyApertureAndIso(r) ==
    /\ r.aperture.some /\ r.iso.some
    /\ \A f \in {"camera", "lens", "focal_length", "shutter_speed", "date_taken"} :
          ~r[f].some

C15_TechnicalLine ==
    Formatted =>
        LET r == job.exif_data.val
            lines == job.lines.val
            before == Cardinality({k \in 1..2 : Items(r)[k]})
            after == Cardinality({k \in 4..4 : Items(r)[k]})
        IN  /\ IF HasTechnical(r)
               THEN /\ Len(lines) = before + 1 + after
                    /\ Some(lines[before + 1]) = TechnicalLine(r)
               ELSE /\ Len(lines) = before + after
                    /\ TechnicalLine(r) = None
            /\ OnlyApertureAndIso(r) =>
                   LET fnumber == CurrentFile.tags["FNumber"].val
                       sensitivity == CurrentFile.tags["PhotographicSensitivity"].val
                   IN  lines = << <<"f", "/">> \o fnumber
                                  \o <<" ", "U+2022", " ", "I", "S", "O", " ">>
                                  \o sensitivity >>

\* a file with the tags FNumber 2 and PhotographicSensitivity 4 alone: the
\* one line is "f/2 U+2022 ISO 4"
C15_Witness ==
    /\ Formatted
    /\ CurrentFile.tags = TagsOf({"FNumber", "PhotographicSensitivity"})
    /\ OnlyApertureAndIso(job.exif_data.val)
    /\ job.lines.val =
          << <<"f", "/", "2", " ", "U+2022", " ", "I", "S", "O", " ", "4">> >>
    /\ job.bordered_img.text.val.text = job.lines.val[1]

(***************************************************************************)
(* C16.  Running the same batch again, with the same inputs, style and     *)
(* metadata setting, gives the same bordered images and the same outcome   *)
(* for every input: nothing of a run or of a job is carried over to the    *)
(* next, and within a run two jobs on the same file end alike.             *)
(***************************************************************************)
\* the steps of input i with their outcomes
OutcomeOf(i) ==
    LET e == SelectSeq(log, LAMBDA ev : ev.job = i) IN
    [k \in 1..Len(e) |-> [step |-> e[k].step, ok |-> e[k].ok]]

C16_RerunIsIdentical ==
    /\ (runs # <<>> /\ pc = "exit") =>
          /\ outputs = runs[1].outputs
          /\ log = runs[1].log
          /\ result = runs[1].result
          /\ success_count = runs[1].success_count
          /\ error_count = runs[1].error_count
          /\ error_details = runs[1].error_details
          /\ window.status_text = runs[1].status_text
    /\ \A i \in 1..Recorded, j \in 1..Recorded :
          args.files[i] = args.files[j] => OutcomeOf(i) = OutcomeOf(j)
    /\ \A k \in DOMAIN outputs, l \in DOMAIN outputs :
          outputs[k].path = outputs[l].path => outputs[k].img = outputs[l].img

\* the second run of a batch of two is over: the first input saved with its
\* text, twice the same image; the second failed, twice
C16_Witness ==
    /\ runs # <<>> /\ pc = "exit"
    /\ NumFiles = 2
    /\ args.files[2] = UndecodableFile
    /\ Len(outputs) = 1 /\ outputs[1].img.text.some
    /\ runs[1].outputs = outputs
    /\ success_count = 1 /\ error_count = 1

(***************************************************************************)
(* C18.  The camera of an extracted record is present exactly when the     *)
(* lookup holds both a Make and a Model tag, and then it is the Model's    *)
(* display value without the quote characters around it; Make contributes  *)
(* its presence only.                                                      *)
(***************************************************************************)
\* the running job has extracted its record
Extracted == InJob /\ job.exif_data.some

\* s is t without the quotes at its two ends: no quote is left at an end of
\* s, and t is s between quotes only
IsTrimmed(s, t) ==
    /\ s # <<>> => s[1] # "\"" /\ s[Len(s)] # "\""
    /\ \E i \in 0..Len(t), j \in 0..Len(t) :
          /\ i + Len(s) + j = Len(t)
          /\ \A k \in 1..i : t[k] = "\""
          /\ \A k \in 1..Len(s) : t[i + k] = s[k]
          /\ \A k \in 1..j : t[i + Len(s) + k] = "\""

C19_NoDateTaken ==
    /\ Extracted => job.exif_data.val.date_taken = None
    /\ Formatted =>
          LET r == job.exif_data.val IN
          /\ Len(job.lines.val) <= 3
          /\ Len(job.lines.val) = Cardinality({k \in 1..3 : Items(r)[k]})
          /\ CurrentFile.tags["DateTimeOriginal"].some =>
                \A k \in 1..Len(job.lines.val) :
                   job.lines.val[k] # CurrentFile.tags["DateTimeOriginal"].val

\* every tag is there, DateTimeOriginal too: three lines, no date
C19_Witness ==
    /\ Formatted
    /\ \A t \in Tags : CurrentFile.tags[t].some
    /\ job.exif_data.val.date_taken = None
    /\ Len(job.lines.val) = 3

BothTokens == {<<"M">>, <<"s">>}

\* the files of a batch handed to both runners
BothFiles ==
    {GoodFile, UndecodableFile, NoExtensionFile, NoExifFile, UnwritableFile}

InitBoth ==
    /\ entry = "cli"
    /\ args \in ArgsOver(SeqsUpTo(BothFiles, MaxFiles), BothTokens)
    /\ InitEnv
    /\ fontFile = "garbage"
    /\ border_type = Some(from_str(args.border_type_str).val)
    /\ \E show_exif \in BOOLEAN :
          photo_border = Some(PhotoBorder_new(border_type.val, show_exif,
                                              args.font_path, fontFile).val)
    /\ pc = "cli_loop"
    /\ idx = 0
    /\ job = NoJob
    /\ success_count = 0
    /\ error_count = 0
    /\ error_details = <<>>
    /\ result = None
    /\ window = IdleWindow
    /\ log = <<>>
    /\ outputs = <<>>
    /\ runs = <<>>
    /\ threads = <<>>

\* process_multiple_images has returned; process_images_background is called
\* with the same files, style, font and output directory.  Its locals are its
\* own; what the first runner produced is kept in `runs`.
BackgroundAfterCli ==
    /\ entry = "cli"
    /\ pc = "cli_return"
    /\ runs = <<>>
    /\ runs' = Append(runs, Produced)
    /\ entry' = "gui"
    /\ pc' = "bg_from_str"
    /\ border_type' = None
    /\ photo_border' = None
    /\ idx' = 0
    /\ job' = NoJob
    /\ success_count' = 0
    /\ error_count' = 0
    /\ error_details' = <<>>
    /\ result' = None
    /\ log' = <<>>
    /\ outputs' = <<>>
    /\ UNCHANGED <<args, dirState, fontFile, window, threads>>

NextBoth ==
    \/ CliRunner
    \/ BackgroundAfterCli
    \/ BgRunner
    \/ ProcessImage

SpecBoth == InitBoth /\ [][NextBoth]_vars

(***************************************************************************)
(* C21.  For the same inputs, style, font and output directory, the batch  *)
(* runner of the command line and the one of the window end every input    *)
(* alike, saved or failed, and so count the same successes and failures,   *)
(* whatever show_exif either of them runs with.                            *)
(***************************************************************************)
\* how the job of input i ended, in the calls `calls` of a run
EndOf(calls, i) ==
    {calls[k].step : k \in {n \in DOMAIN calls : calls[n].job = i
                                                  /\ calls[n].step \in Terminal}}

\* both runners have returned
BothReturned == runs # <<>> /\ pc = "gui_update"

C21_SameOutcomes ==
    /\ runs # <<>> =>
          \A i \in 1..Recorded :
              /\ Cardinality(EndOf(log, i)) = 1
              /\ EndOf(log, i) = EndOf(runs[1].log, i)
    /\ BothReturned =>
          /\ IsOk(result.val)
          /\ Recorded = NumFiles
          /\ success_count = runs[1].success_count
          /\ error_count = runs[1].error_count

\* a file without metadata and an undecodable one: the first runner read the
\* metadata, in vain, the second did not; both saved the first input and
\* failed on the second
C21_Witness ==
    /\ BothReturned
    /\ args.files = <<NoExifFile, UndecodableFile>>
    /\ \E k \in DOMAIN runs[1].log :
          runs[1].log[k] = Event(1, "read_exif", FALSE)
    /\ CallCount(1, "read_exif") = 0
    /\ EndOf(log, 1) = {"Saved"} /\ EndOf(runs[1].log, 1) = {"Saved"}
    /\ EndOf(log, 2) = {"Failed"} /\ EndOf(runs[1].log, 2) = {"Failed"}
    /\ success_count = 1 /\ error_count = 1
    /\ runs[1].success_count = 1 /\ runs[1].error_count = 1

(***************************************************************************)
(* C22.  A job never writes over its own source: whenever the output path  *)
(* is derived, with no output directory or with any, the input's own       *)
(* directory too, it differs from the input path, in its file name         *)
(* already, and the job's only save goes to that path.                     *)
(***************************************************************************)
C22_NeverOwnSource ==
    /\ (Derived /\ job.output_path.some) =>
          /\ job.output_path.val # CurrentFile.path
          /\ file_name(job.output_path.val) # file_name(CurrentFile.path)
    /\ Len(outputs) <= 1
    /\ \A k \in DOMAIN outputs :
          /\ job.output_path.some
          /\ outputs[k].path = job.output_path.val
          /\ outputs[k].path # CurrentFile.path

\* a/a.j with its own directory a as the output directory is saved as
\* a/a_border.j
C22_Witness ==
    /\ CurrentFile.path = <<"a", "/", "a", ".", "j">>
    /\ args.output_dir = Some(<<"a">>)
    /\ SameDir(parent(CurrentFile.path).val, args.output_dir.val)
    /\ job.state = "Saved"
    /\ outputs =
          <<[path |-> <<"a", "/", "a", "_", "b", "o", "r", "d", "e", "r", ".", "j">>,
             img |-> job.bordered_img]>>

====
